---------------------------- MODULE Spec2Model ----------------------------
(***************************************************************************)
(* A model of universal-read-api: the POST /extract handler, the page     *)
(* scraper with its regex HTML -> Markdown normalizer, the extraction      *)
(* type classifier and the model-output parser.                            *)
(*                                                                         *)
(* Text is modelled character by character: a string is a sequence of      *)
(* one-character strings, and every regular expression of the source is    *)
(* translated into a matcher over such sequences.                          *)
(***************************************************************************)
EXTENDS Integers, Sequences, FiniteSets, TLC

(***************************************************************************)
(* Characters and basic string operations (JavaScript String semantics).   *)
(***************************************************************************)

UpperToLower ==
    [c \in {"A","B","C","D","E","F","G","H","I","J","K","L","M","N","O","P","Q",
            "R","S","T","U","V","W","X","Y","Z"} |->
        CASE c = "A" -> "a" [] c = "B" -> "b" [] c = "C" -> "c" [] c = "D" -> "d"
          [] c = "E" -> "e" [] c = "F" -> "f" [] c = "G" -> "g" [] c = "H" -> "h"
          [] c = "I" -> "i" [] c = "J" -> "j" [] c = "K" -> "k" [] c = "L" -> "l"
          [] c = "M" -> "m" [] c = "N" -> "n" [] c = "O" -> "o" [] c = "P" -> "p"
          [] c = "Q" -> "q" [] c = "R" -> "r" [] c = "S" -> "s" [] c = "T" -> "t"
          [] c = "U" -> "u" [] c = "V" -> "v" [] c = "W" -> "w" [] c = "X" -> "x"
          [] c = "Y" -> "y" [] c = "Z" -> "z"]

\* String.prototype.toLowerCase / the regex i flag, on one character
Lower(c) == IF c \in DOMAIN UpperToLower THEN UpperToLower[c] ELSE c

ToLowerCase(s) == [k \in 1..Len(s) |-> Lower(s[k])]

Digits == {"0","1","2","3","4","5","6","7","8","9"}

HexLetters == {"a","b","c","d","e","f","A","B","C","D","E","F"}

\* the regex class \w, which decides the word boundary \b
WordChars ==
    DOMAIN UpperToLower \cup {UpperToLower[c] : c \in DOMAIN UpperToLower}
        \cup Digits \cup {"_"}

\* the regex class \s restricted to the characters of the model
SpaceChars == {" ", "\t", "\n", "\r"}

\* the regex class [ \t]
BlankChars == {" ", "\t"}

\* the line terminators before which a multiline $ matches
LineTerminators == {"\n", "\r"}

\* pat occurs in s at position i (case-sensitive)
StartsWith(s, i, pat) ==
    /\ i >= 1
    /\ i + Len(pat) - 1 <= Len(s)
    /\ \A k \in 1..Len(pat) : s[i + k - 1] = pat[k]

\* pat (given in lower case) occurs in s at position i under the i flag
StartsWithCI(s, i, pat) ==
    /\ i >= 1
    /\ i + Len(pat) - 1 <= Len(s)
    /\ \A k \in 1..Len(pat) : Lower(s[i + k - 1]) = pat[k]

\* F applied to the value v: a local binding, const x = v; F(x)
With(v, F(_)) == CHOOSE y \in {F(x) : x \in {v}} : TRUE

\* F applied to the finished value of v: one stage after another
Pipe(v, F(_)) == CHOOSE y \in {F(x) : x \in {v}} : TRUE

SetMin(S) == CHOOSE x \in S : \A y \in S : x <= y

SetMax(S) == CHOOSE x \in S : \A y \in S : y <= x

\* the first position in from..to that satisfies P, 0 when there is none
FirstSuch(P(_), from, to) ==
    With({j \in from..to : P(j)}, LAMBDA cs : IF cs = {} THEN 0 ELSE SetMin(cs))

\* first position >= from where pat occurs in s, 0 when there is none
IndexOf(s, pat, from) ==
    FirstSuch(LAMBDA j : StartsWith(s, j, pat), from, Len(s) - Len(pat) + 1)

IndexOfCI(s, pat, from) ==
    FirstSuch(LAMBDA j : StartsWithCI(s, j, pat), from, Len(s) - Len(pat) + 1)

\* String.prototype.includes
Includes(s, pat) == IndexOf(s, pat, 1) # 0

\* first position >= from holding a character of set cs, 0 when there is none
IndexOfChar(s, cs, from) == FirstSuch(LAMBDA j : s[j] \in cs, from, Len(s))

\* first position >= from holding a character outside cs, Len(s)+1 when none
SkipChars(s, cs, from) ==
    With(FirstSuch(LAMBDA k : s[k] \notin cs, from, Len(s)),
         LAMBDA j : IF j = 0 THEN Len(s) + 1 ELSE j)

Slice(s, a, b) == IF a > b THEN << >> ELSE SubSeq(s, a, b)

\* a regex match at one position: the last position matched and the text
\* that replaces the match; end = 0 means no match at that position
NoMatch == [end |-> 0, out |-> << >>]

Match(e, o) == [end |-> e, out |-> o]

\* String.prototype.replace with a g-flag regex whose matches are never
\* empty: scan left to right, replace each match, resume after its end
RECURSIVE ReplaceAll(_, _, _)
ReplaceAll(M(_, _), s, i) ==
    IF i > Len(s) THEN << >>
    ELSE With(FirstSuch(LAMBDA k : M(s, k).end # 0, i, Len(s)), LAMBDA j :
            IF j = 0 THEN Slice(s, i, Len(s))
            ELSE With(M(s, j), LAMBDA m :
                    Slice(s, i, j - 1) \o m.out \o ReplaceAll(M, s, m.end + 1)))

(***************************************************************************)
(* src/src/lib/scraper.ts: htmlToMarkdown, one matcher per regular         *)
(* expression, in the order of the source.                                 *)
(***************************************************************************)

\* the backtick character (a backtick cannot be written in a TLA+ string)
BT == "BACKTICK"

\* the literal texts of the regular expressions, replacements and messages
Str ==
    [ script |-> <<"s","c","r","i","p","t">>,
      style |-> <<"s","t","y","l","e">>,
      noscript |-> <<"n","o","s","c","r","i","p","t">>,
      nav |-> <<"n","a","v">>,
      footer |-> <<"f","o","o","t","e","r">>,
      header |-> <<"h","e","a","d","e","r">>,
      aside |-> <<"a","s","i","d","e">>,
      commentOpen |-> <<"<","!","-","-">>,
      commentClose |-> <<"-","-",">">>,
      p |-> <<"p">>,
      br |-> <<"b","r">>,
      hr |-> <<"h","r">>,
      strong |-> <<"s","t","r","o","n","g">>,
      b |-> <<"b">>,
      em |-> <<"e","m">>,
      i |-> <<"i">>,
      a |-> <<"a">>,
      img |-> <<"i","m","g">>,
      ul |-> <<"u","l">>,
      ol |-> <<"o","l">>,
      li |-> <<"l","i">>,
      blockquote |-> <<"b","l","o","c","k","q","u","o","t","e">>,
      pre |-> <<"p","r","e">>,
      code |-> <<"c","o","d","e">>,
      codeOpen |-> <<"<","c","o","d","e">>,
      codePreClose |-> <<"<","/","c","o","d","e",">","<","/","p","r","e",">">>,
      body |-> <<"b","o","d","y">>,
      title |-> <<"t","i","t","l","e">>,
      hrefDq |-> <<"h","r","e","f","=","\"">>,
      hrefSq |-> <<"h","r","e","f","=","'">>,
      altDq |-> <<"a","l","t","=","\"">>,
      altSq |-> <<"a","l","t","=","'">>,
      fence |-> <<"\n", BT, BT, BT, "\n">>,
      rule |-> <<"\n","-","-","-","\n">>,
      imagePrefix |-> <<"[","I","m","a","g","e",":"," ">>,
      dollarOne |-> <<"."," ","$","1","\n">>,
      nbsp |-> <<"&","n","b","s","p",";">>,
      amp |-> <<"&","a","m","p",";">>,
      lt |-> <<"&","l","t",";">>,
      gt |-> <<"&","g","t",";">>,
      quot |-> <<"&","q","u","o","t",";">>,
      num39 |-> <<"&","#","3","9",";">>,
      apos |-> <<"&","a","p","o","s",";">>,
      hexOpen |-> <<"&","#","x">>,
      decOpen |-> <<"&","#">>,
      untitled |-> <<"U","n","t","i","t","l","e","d">>,
      true |-> <<"t","r","u","e">>,
      false |-> <<"f","a","l","s","e">>,
      null |-> <<"n","u","l","l">>,
      pageTitle |-> <<"P","a","g","e"," ","T","i","t","l","e",":"," ">>,
      detected |-> <<"D","e","t","e","c","t","e","d"," ","C","o","n","t","e","n","t"," ","T","y","p","e",":"," ">>,
      customSchema |-> <<"C","U","S","T","O","M"," ","S","C","H","E","M","A"," ","(","u","s","e"," ","t","h","i","s"," ","i","n","s","t","e","a","d"," ","o","f"," ","d","e","f","a","u","l","t",")",":","\n">>,
      contentHeader |-> <<"C","O","N","T","E","N","T"," ","T","O"," ","E","X","T","R","A","C","T"," ","F","R","O","M",":","\n","\n">>,
      fenceJson |-> <<BT,BT,BT,"j","s","o","n">>,
      fenceOnly |-> <<BT,BT,BT>>,
      rawExtraction |-> <<"r","a","w","E","x","t","r","a","c","t","i","o","n">>,
      parseError |-> <<"p","a","r","s","e","E","r","r","o","r">>,
      failedToParse |-> <<"F","a","i","l","e","d"," ","t","o"," ","p","a","r","s","e"," ","a","s"," ","J","S","O","N">>,
      geminiError |-> <<"G","e","m","i","n","i"," ","A","P","I"," ","e","r","r","o","r">>,
      geminiPrefix |-> <<"G","e","m","i","n","i"," ","A","P","I"," ","e","r","r","o","r",":"," ">>,
      failedToFetch |-> <<"F","a","i","l","e","d"," ","t","o"," ","f","e","t","c","h"," ">>,
      navTimeout |-> <<"N","a","v","i","g","a","t","i","o","n"," ","t","i","m","e","o","u","t">>,
      netErr |-> <<"n","e","t",":",":","E","R","R","_">>,
      modelName |-> <<"g","e","m","i","n","i","-","2",".","5","-","f","l","a","s","h","-","l","i","t","e">>,
      geminiRestOpen |-> <<"G","e","m","i","n","i"," ","A","P","I"," ","e","r","r","o","r"," ","(">>,
      unexpectedToken |-> <<"U","n","e","x","p","e","c","t","e","d"," ","t","o","k","e","n">>,
      quota |-> <<"q","u","o","t","a"," ","e","x","c","e","e","d","e","d">> ]

\* the alternation (div|span|section|article|main)
ContainerNames ==
    { <<"d","i","v">>, <<"s","p","a","n">>, <<"s","e","c","t","i","o","n">>,
      <<"a","r","t","i","c","l","e">>, <<"m","a","i","n">> }

\* the closing tag </name>
CloseTag(name) == <<"<", "/">> \o name \o <<">">>

\* the position of the first ">" at or after from: where [^>]*> ends
FirstGT(s, from) == IndexOfChar(s, {">"}, from)

\* \b after the word character at position p
WordBoundaryAfter(s, p) == p >= Len(s) \/ s[p + 1] \notin WordChars

\* <name\b[^<]*(?:(?!<\/name>)<[^<]*)*<\/name>  (gi), replaced by "":
\* the match runs from <name to the first </name> after it
RawElement(s, i, name) ==
    IF s[i] = "<" /\ StartsWithCI(s, i + 1, name)
                 /\ WordBoundaryAfter(s, i + Len(name))
    THEN With(IndexOfCI(s, CloseTag(name), i + 1 + Len(name)), LAMBDA c :
             IF c = 0 THEN NoMatch ELSE Match(c + Len(name) + 2, << >>))
    ELSE NoMatch

\* <!--[\s\S]*?-->  (g), replaced by ""
M_comment(s, i) ==
    IF s[i] = "<" /\ StartsWith(s, i, Str.commentOpen)
    THEN With(IndexOf(s, Str.commentClose, i + 4), LAMBDA c :
             IF c = 0 THEN NoMatch ELSE Match(c + 2, << >>))
    ELSE NoMatch

\* the groups of <name[^>]*>([\s\S]*?)close at position i: the opening tag
\* ends at the first ">", the content at the first occurrence of close.
\* boundary asks for \b after the name.
ElementAt(s, i, name, close, boundary) ==
    IF s[i] = "<" /\ StartsWithCI(s, i + 1, name)
                 /\ (boundary => WordBoundaryAfter(s, i + Len(name)))
    THEN With(FirstGT(s, i + 1 + Len(name)), LAMBDA gt :
             IF gt = 0 THEN [end |-> 0]
             ELSE With(IndexOfCI(s, close, gt + 1), LAMBDA c :
                      IF c = 0 THEN [end |-> 0]
                      ELSE [end |-> c + Len(close) - 1,
                            content |-> Slice(s, gt + 1, c - 1)]))
    ELSE [end |-> 0]

\* <name\b[^>]*>[\s\S]*?<\/name>  (gi), replaced by ""
SectionElement(s, i, name) ==
    With(ElementAt(s, i, name, CloseTag(name), TRUE), LAMBDA e :
        IF e.end = 0 THEN NoMatch ELSE Match(e.end, << >>))

\* the decimal digits, by value
DigitChar == <<"0","1","2","3","4","5","6","7","8","9">>

\* <name[^>]*>([\s\S]*?)<\/name>  (gi), replaced by before $1 after
WrapElement(s, i, name, before, after) ==
    With(ElementAt(s, i, name, CloseTag(name), FALSE), LAMBDA e :
        IF e.end = 0 THEN NoMatch
        ELSE Match(e.end, before \o e.content \o after))

\* <h1[^>]*>([\s\S]*?)<\/h1>  ->  "\n# $1\n"  ...  h6, "\n###### $1\n"
HeadingAt(s, i, level) ==
    WrapElement(s, i, <<"h", DigitChar[level + 1]>>,
                <<"\n">> \o [k \in 1..level |-> "#"] \o <<" ">>, <<"\n">>)

\* <name\s*\/?>  (gi), replaced by out
VoidTag(s, i, name, out) ==
    IF s[i] = "<" /\ StartsWithCI(s, i + 1, name)
    THEN With(SkipChars(s, SpaceChars, i + 1 + Len(name)), LAMBDA p :
         With(IF p <= Len(s) /\ s[p] = "/" THEN p + 1 ELSE p, LAMBDA q :
             IF q <= Len(s) /\ s[q] = ">" THEN Match(q, out) ELSE NoMatch))
    ELSE NoMatch

\* <(strong|b)[^>]*>([\s\S]*?)<\/\1>  ->  "**$2**"
M_bold(s, i) ==
    IF s[i] # "<" THEN NoMatch
    ELSE IF StartsWithCI(s, i + 1, Str.strong)
    THEN WrapElement(s, i, Str.strong, <<"*","*">>, <<"*","*">>)
    ELSE WrapElement(s, i, Str.b, <<"*","*">>, <<"*","*">>)

\* <(em|i)[^>]*>([\s\S]*?)<\/\1>  ->  "*$2*"
M_italic(s, i) ==
    IF s[i] # "<" THEN NoMatch
    ELSE IF StartsWithCI(s, i + 1, Str.em)
    THEN WrapElement(s, i, Str.em, <<"*">>, <<"*">>)
    ELSE WrapElement(s, i, Str.i, <<"*">>, <<"*">>)

\* the attribute part of <name[^>]*attr="([^"]*)"[^>]*> at position i:
\* [^>]* is greedy, so the last attr=" before the first ">" whose value is
\* closed by a quote and followed by a ">" is taken
AttrQuoteAt(s, h, attr, quote) == IndexOfChar(s, {quote}, h + Len(attr))

AttrGtAt(s, h, attr, quote) ==
    With(AttrQuoteAt(s, h, attr, quote),
         LAMBDA q : IF q = 0 THEN 0 ELSE FirstGT(s, q + 1))

AttrTagAt(s, i, name, attr, quote) ==
    IF s[i] = "<" /\ StartsWithCI(s, i + 1, name)
    THEN With(i + 1 + Len(name), LAMBDA from :
         With(FirstGT(s, from), LAMBDA gt0 :
         With({h \in from..(IF gt0 = 0 THEN Len(s) ELSE gt0 - 1) :
                 StartsWithCI(s, h, attr) /\ AttrGtAt(s, h, attr, quote) # 0},
              LAMBDA hs :
                 [hs |-> hs,
                  quoteAt |-> [h \in hs |-> AttrQuoteAt(s, h, attr, quote)],
                  gtAt |-> [h \in hs |-> AttrGtAt(s, h, attr, quote)]])))
    ELSE [hs |-> {}]

\* <a[^>]*href="([^"]*)"[^>]*>([\s\S]*?)<\/a>  ->  "[$2]($1)"
LinkAt(s, i, attr, quote) ==
    With(AttrTagAt(s, i, Str.a, attr, quote), LAMBDA t :
    With({h \in t.hs : IndexOfCI(s, CloseTag(Str.a), t.gtAt[h] + 1) # 0}, LAMBDA ok :
        IF ok = {} THEN NoMatch
        ELSE With(SetMax(ok), LAMBDA h :
             With(IndexOfCI(s, CloseTag(Str.a), t.gtAt[h] + 1), LAMBDA c :
                 Match(c + 3,
                       <<"[">> \o Slice(s, t.gtAt[h] + 1, c - 1) \o <<"]", "(">>
                         \o Slice(s, h + Len(attr), t.quoteAt[h] - 1) \o <<")">>)))))

\* <img[^>]*alt="([^"]*)"[^>]*\/?>  ->  "[Image: $1]"
ImageAt(s, i, attr, quote) ==
    With(AttrTagAt(s, i, Str.img, attr, quote), LAMBDA t :
        IF t.hs = {} THEN NoMatch
        ELSE With(SetMax(t.hs), LAMBDA h :
                 Match(t.gtAt[h],
                       Str.imagePrefix
                         \o Slice(s, h + Len(attr), t.quoteAt[h] - 1) \o <<"]">>)))

\* <img[^>]*\/?>  ->  ""
M_imgNoAlt(s, i) ==
    IF s[i] = "<" /\ StartsWithCI(s, i + 1, Str.img)
    THEN With(FirstGT(s, i + 4), LAMBDA gt :
             IF gt = 0 THEN NoMatch ELSE Match(gt, << >>))
    ELSE NoMatch

\* <li[^>]*>([\s\S]*?)<\/li>  ->  "- $1\n"
M_liDash(s, i) == WrapElement(s, i, Str.li, <<"-", " ">>, <<"\n">>)

\* <ul[^>]*>([\s\S]*?)<\/ul>  ->  the content with its items rewritten
M_ul(s, i) ==
    With(ElementAt(s, i, Str.ul, CloseTag(Str.ul), FALSE), LAMBDA e :
        IF e.end = 0 THEN NoMatch
        ELSE Match(e.end, ReplaceAll(M_liDash, e.content, 1)))

\* the template literal ${listCounter}
RECURSIVE NumToStr(_)
NumToStr(n) ==
    IF n < 10 THEN <<DigitChar[n + 1]>>
    ELSE NumToStr(n \div 10) \o <<DigitChar[(n % 10) + 1]>>

\* what the replacer function returns for one <li>: ${listCounter} ". $1\n".
\* A string returned by a replacer function is inserted as it is, so the
\* "$1" stays in the text and the item's content is dropped.
OlItemText(listCounter, content) == NumToStr(listCounter) \o Str.dollarOne

\* content.replace(/<li[^>]*>([\s\S]*?)<\/li>/gi, () => { listCounter++; ... })
RECURSIVE OlItems(_, _, _)
OlItems(s, i, listCounter) ==
    With(FirstSuch(LAMBDA k : ElementAt(s, k, Str.li, CloseTag(Str.li), FALSE).end # 0,
                       i, Len(s)), LAMBDA j :
        IF j = 0 THEN Slice(s, i, Len(s))
        ELSE With(ElementAt(s, j, Str.li, CloseTag(Str.li), FALSE), LAMBDA e :
                 Slice(s, i, j - 1) \o OlItemText(listCounter + 1, e.content)
                   \o OlItems(s, e.end + 1, listCounter + 1)))

\* <ol[^>]*>([\s\S]*?)<\/ol>: listCounter = 0, then the items are numbered
M_ol(s, i) ==
    With(ElementAt(s, i, Str.ol, CloseTag(Str.ol), FALSE), LAMBDA e :
        IF e.end = 0 THEN NoMatch
        ELSE Match(e.end, OlItems(e.content, 1, 0)))

\* content.split("\n").map(line => "> " + line).join("\n")
QuoteLines(content) ==
    <<">", " ">> \o
    ReplaceAll(LAMBDA s, i : IF s[i] = "\n" THEN Match(i, <<"\n", ">", " ">>)
                                            ELSE NoMatch,
               content, 1)

\* <blockquote[^>]*>([\s\S]*?)<\/blockquote>
M_blockquote(s, i) ==
    With(ElementAt(s, i, Str.blockquote, CloseTag(Str.blockquote), FALSE), LAMBDA e :
        IF e.end = 0 THEN NoMatch ELSE Match(e.end, QuoteLines(e.content)))

\* <pre[^>]*><code[^>]*>([\s\S]*?)<\/code><\/pre>  ->  "\n" fence "\n$1\n" fence "\n"
M_preCode(s, i) ==
    IF s[i] = "<" /\ StartsWithCI(s, i + 1, Str.pre)
    THEN With(FirstGT(s, i + 4), LAMBDA gt :
             IF gt = 0 \/ ~StartsWithCI(s, gt + 1, Str.codeOpen) THEN NoMatch
             ELSE With(FirstGT(s, gt + 6), LAMBDA gt2 :
                      IF gt2 = 0 THEN NoMatch
                      ELSE With(IndexOfCI(s, Str.codePreClose, gt2 + 1), LAMBDA c :
                               IF c = 0 THEN NoMatch
                               ELSE Match(c + Len(Str.codePreClose) - 1,
                                          Str.fence \o Slice(s, gt2 + 1, c - 1)
                                            \o Str.fence))))
    ELSE NoMatch

\* <(div|span|section|article|main)[^>]*>  ->  "\n"
M_containerOpen(s, i) ==
    IF s[i] = "<" /\ \E n \in ContainerNames : StartsWithCI(s, i + 1, n)
    THEN With(FirstGT(s, i + 1), LAMBDA gt :
             IF gt = 0 THEN NoMatch ELSE Match(gt, <<"\n">>))
    ELSE NoMatch

\* <\/(div|span|section|article|main)>  ->  "\n"
M_containerClose(s, i) ==
    IF s[i] = "<" /\ \E n \in ContainerNames : StartsWithCI(s, i, CloseTag(n))
    THEN Match(i + Len(CHOOSE n \in ContainerNames :
                           StartsWithCI(s, i, CloseTag(n))) + 2, <<"\n">>)
    ELSE NoMatch

\* <[^>]+>  (g), replaced by ""
M_anyTag(s, i) ==
    IF s[i] = "<" /\ i + 1 <= Len(s) /\ s[i + 1] # ">"
    THEN With(FirstGT(s, i + 2), LAMBDA gt :
             IF gt = 0 THEN NoMatch ELSE Match(gt, << >>))
    ELSE NoMatch

\* s.replace(regex, replacement) for the g-flag regex of matcher M
Replace(s, M(_, _)) == ReplaceAll(M, s, 1)

\* s.replace(/pat/g, out) for a literal pattern
ReplaceLiteral(s, pat, out) ==
    ReplaceAll(LAMBDA t, i : IF StartsWith(t, i, pat)
                             THEN Match(i + Len(pat) - 1, out) ELSE NoMatch,
               s, 1)

HexDigitValue(c) ==
    CASE c \in {"a", "A"} -> 10 [] c \in {"b", "B"} -> 11 [] c \in {"c", "C"} -> 12
      [] c \in {"d", "D"} -> 13 [] c \in {"e", "E"} -> 14 [] c \in {"f", "F"} -> 15
      [] OTHER -> CHOOSE d \in 0..9 : DigitChar[d + 1] = c

\* parseInt(digits, base) for a non-empty run of digits of that base
RECURSIVE ParseInt(_, _)
ParseInt(digits, base) ==
    IF Len(digits) = 0 THEN 0
    ELSE ParseInt(Slice(digits, 1, Len(digits) - 1), base) * base
           + HexDigitValue(digits[Len(digits)])

\* a character outside the alphabet of the model
OtherChar == "?"

\* String.fromCharCode(n): the code unit n modulo 2^16
CharOfCode(n) ==
    With(n % 65536, LAMBDA u :
        CASE u = 9 -> "\t" [] u = 10 -> "\n" [] u = 13 -> "\r" [] u = 32 -> " "
          [] u = 34 -> "\"" [] u = 35 -> "#" [] u = 36 -> "$" [] u = 38 -> "&"
          [] u = 39 -> "'" [] u = 47 -> "/" [] u = 59 -> ";" [] u = 60 -> "<"
          [] u = 61 -> "=" [] u = 62 -> ">" [] u = 65 -> "A" [] u = 66 -> "B"
          [] u = 97 -> "a" [] u = 98 -> "b"
          [] u \in 48..57 -> DigitChar[u - 47]
          [] OTHER -> OtherChar)

\* &#x([0-9a-fA-F]+);  ->  String.fromCharCode(parseInt(hex, 16))
M_hexRef(s, i) ==
    IF s[i] = "&" /\ StartsWith(s, i, Str.hexOpen)
    THEN With(SkipChars(s, Digits \cup HexLetters, i + 3), LAMBDA p :
             IF p > i + 3 /\ p <= Len(s) /\ s[p] = ";"
             THEN Match(p, <<CharOfCode(ParseInt(Slice(s, i + 3, p - 1), 16))>>)
             ELSE NoMatch)
    ELSE NoMatch

\* &#(\d+);  ->  String.fromCharCode(parseInt(num, 10))
M_decRef(s, i) ==
    IF s[i] = "&" /\ StartsWith(s, i, Str.decOpen)
    THEN With(SkipChars(s, Digits, i + 2), LAMBDA p :
             IF p > i + 2 /\ p <= Len(s) /\ s[p] = ";"
             THEN Match(p, <<CharOfCode(ParseInt(Slice(s, i + 2, p - 1), 10))>>)
             ELSE NoMatch)
    ELSE NoMatch

\* \n{3,}  ->  "\n\n"
M_newlines(s, i) ==
    IF s[i] = "\n"
    THEN With(SkipChars(s, {"\n"}, i) - 1, LAMBDA e :
             IF e - i + 1 >= 3 THEN Match(e, <<"\n", "\n">>) ELSE NoMatch)
    ELSE NoMatch

\* ^\s+|\s+$  (g, no m flag)  ->  ""
M_trim(s, i) ==
    IF s[i] \in SpaceChars
    THEN With(SkipChars(s, SpaceChars, i) - 1, LAMBDA e :
             IF i = 1 \/ e = Len(s) THEN Match(e, << >>)
             ELSE NoMatch)
    ELSE NoMatch

\* [ \t]+$  (gm)  ->  ""
M_trailingBlanks(s, i) ==
    IF s[i] \in BlankChars
    THEN With(SkipChars(s, BlankChars, i) - 1, LAMBDA e :
             IF e = Len(s) \/ s[e + 1] \in LineTerminators
             THEN Match(e, << >>) ELSE NoMatch)
    ELSE NoMatch

\* [ \t]+  ->  " "
M_blanks(s, i) ==
    IF s[i] \in BlankChars
    THEN Match(SkipChars(s, BlankChars, i) - 1, <<" ">>)
    ELSE NoMatch

\* lines 23-35: scripts, styles, noscript, comments and page furniture go
\* with their content
RemoveNoise(html) ==
    Replace(Replace(Replace(Replace(Replace(Replace(Replace(Replace(html,
        LAMBDA s, i : RawElement(s, i, Str.script)),
        LAMBDA s, i : RawElement(s, i, Str.style)),
        LAMBDA s, i : RawElement(s, i, Str.noscript)),
        M_comment),
        LAMBDA s, i : SectionElement(s, i, Str.nav)),
        LAMBDA s, i : SectionElement(s, i, Str.footer)),
        LAMBDA s, i : SectionElement(s, i, Str.header)),
        LAMBDA s, i : SectionElement(s, i, Str.aside))

\* lines 37-64: headings, paragraphs, breaks, emphasis, links, images
ConvertInline(text) ==
    Replace(Replace(Replace(Replace(Replace(Replace(Replace(Replace(Replace(
        Replace(Replace(Replace(Replace(Replace(Replace(text,
        LAMBDA s, i : HeadingAt(s, i, 1)),
        LAMBDA s, i : HeadingAt(s, i, 2)),
        LAMBDA s, i : HeadingAt(s, i, 3)),
        LAMBDA s, i : HeadingAt(s, i, 4)),
        LAMBDA s, i : HeadingAt(s, i, 5)),
        LAMBDA s, i : HeadingAt(s, i, 6)),
        LAMBDA s, i : WrapElement(s, i, Str.p, <<"\n">>, <<"\n">>)),
        LAMBDA s, i : VoidTag(s, i, Str.br, <<"\n">>)),
        M_bold),
        M_italic),
        LAMBDA s, i : LinkAt(s, i, Str.hrefDq, "\"")),
        LAMBDA s, i : LinkAt(s, i, Str.hrefSq, "'")),
        LAMBDA s, i : ImageAt(s, i, Str.altDq, "\"")),
        LAMBDA s, i : ImageAt(s, i, Str.altSq, "'")),
        M_imgNoAlt)

\* lines 66-98: lists, blockquotes, code, rules, containers
ConvertBlocks(text) ==
    Replace(Replace(Replace(Replace(Replace(Replace(Replace(Replace(Replace(
        text,
        M_ul),
        M_ol),
        M_blockquote),
        M_preCode),
        LAMBDA s, i : WrapElement(s, i, Str.pre, Str.fence, Str.fence)),
        LAMBDA s, i : WrapElement(s, i, Str.code, <<BT>>, <<BT>>)),
        LAMBDA s, i : VoidTag(s, i, Str.hr, Str.rule)),
        M_containerOpen),
        M_containerClose)

\* a variant of the tag pass that leaves the tags in place
StripTags_kept(text) == text

\* lines 100-101: every remaining tag is removed
StripTags(text) == Replace(text, M_anyTag)

\* lines 103-113: character references are decoded, in this order
DecodeEntities(text) ==
    Replace(Replace(ReplaceLiteral(ReplaceLiteral(ReplaceLiteral(
        ReplaceLiteral(ReplaceLiteral(ReplaceLiteral(ReplaceLiteral(text,
        Str.nbsp, <<" ">>), Str.amp, <<"&">>), Str.lt, <<"<">>), Str.gt, <<">">>),
        Str.quot, <<"\"">>), Str.num39, <<"'">>), Str.apos, <<"'">>), M_hexRef),
        M_decRef)

\* lines 115-120: the whitespace clean-up, in this order
CleanWhitespace(text) ==
    Replace(Replace(Replace(Replace(text, M_newlines), M_trim),
        M_trailingBlanks), M_blanks)

\* the text before character references are decoded (lines 21-101)
MarkupRemoved(html) ==
    Pipe(html, LAMBDA h :
    Pipe(RemoveNoise(h), LAMBDA a :
    Pipe(ConvertInline(a), LAMBDA b :
    Pipe(ConvertBlocks(b), StripTags))))

htmlToMarkdown(html) ==
    Pipe(MarkupRemoved(html), LAMBDA t :
    Pipe(DecodeEntities(t), CleanWhitespace))

\* String.prototype.trim
Trim(s) == Replace(s, M_trim)

\* /<title[^>]*>([^<]*)<\/title>/i at position i: the groups, or end = 0
TitleAt(html, i) ==
    IF html[i] = "<" /\ StartsWithCI(html, i + 1, Str.title)
    THEN With(FirstGT(html, i + 6), LAMBDA gt :
         With(IF gt = 0 THEN 0 ELSE IndexOfChar(html, {"<"}, gt + 1), LAMBDA lt :
             IF lt # 0 /\ StartsWithCI(html, lt, CloseTag(Str.title))
             THEN [end |-> lt + 7, content |-> Slice(html, gt + 1, lt - 1)]
             ELSE [end |-> 0]))
    ELSE [end |-> 0]

\* lines 128-131: html.match(...) finds the first position that matches
extractTitle(html) ==
    With(FirstSuch(LAMBDA k : TitleAt(html, k).end # 0, 1, Len(html)), LAMBDA i :
        IF i = 0 THEN Str.untitled ELSE Trim(TitleAt(html, i).content))

\* last position >= from where pat occurs under the i flag, 0 when none
LastIndexOfCI(s, pat, from) ==
    With({c \in from..Len(s) : StartsWithCI(s, c, pat)}, LAMBDA cs :
        IF cs = {} THEN 0 ELSE SetMax(cs))

\* /<body[^>]*>([\s\S]*)<\/body>/i at position i: the content is greedy
BodyAt(html, i) ==
    IF html[i] = "<" /\ StartsWithCI(html, i + 1, Str.body)
    THEN With(FirstGT(html, i + 5), LAMBDA gt :
         With(IF gt = 0 THEN 0 ELSE LastIndexOfCI(html, CloseTag(Str.body), gt + 1), LAMBDA c :
             IF c # 0 THEN [end |-> c + 6, content |-> Slice(html, gt + 1, c - 1)]
             ELSE [end |-> 0]))
    ELSE [end |-> 0]

\* lines 136-139
extractBody(html) ==
    With(FirstSuch(LAMBDA k : BodyAt(html, k).end # 0, 1, Len(html)), LAMBDA i :
        IF i = 0 THEN html ELSE BodyAt(html, i).content)

(***************************************************************************)
(* src/src/lib/llm.ts: JSON text, the classifier, the prompt and the       *)
(* parsing of the model's response.                                        *)
(***************************************************************************)

\* JSON values, as JSON.parse builds them
JNull == [t |-> "null"]

JBool(b) == [t |-> "boolean", b |-> b]

JNumber(lit) == [t |-> "number", lit |-> lit]

JString(cs) == [t |-> "string", chars |-> cs]

JArray(items) == [t |-> "array", items |-> items]

JObject(members) == [t |-> "object", members |-> members]

\* the JSON grammar's whitespace
JsonWs == {" ", "\t", "\n", "\r"}

\* the result of parsing one construct: ok, the value, the next position
Parsed(v, n) == [ok |-> TRUE, val |-> v, next |-> n]

ParseFail == [ok |-> FALSE]

CharAt(s, i) == IF i >= 1 /\ i <= Len(s) THEN s[i] ELSE "END"

\* a string literal from the opening quote at position i: no raw control
\* characters, backslash escapes decoded
RECURSIVE ParseStringBody(_, _, _)
ParseStringBody(s, i, acc) ==
    IF i > Len(s) THEN ParseFail
    ELSE IF s[i] = "\"" THEN Parsed(JString(acc), i + 1)
    ELSE IF s[i] \in {"\n", "\t", "\r"} THEN ParseFail
    ELSE IF s[i] = "\\"
    THEN With(CharAt(s, i + 1), LAMBDA e :
             IF e \in {"\"", "\\", "/"} THEN ParseStringBody(s, i + 2, Append(acc, e))
             ELSE IF e = "n" THEN ParseStringBody(s, i + 2, Append(acc, "\n"))
             ELSE IF e = "t" THEN ParseStringBody(s, i + 2, Append(acc, "\t"))
             ELSE IF e = "r" THEN ParseStringBody(s, i + 2, Append(acc, "\r"))
             ELSE IF e \in {"b", "f"} THEN ParseStringBody(s, i + 2, Append(acc, OtherChar))
             ELSE IF e = "u" /\ i + 5 <= Len(s)
                       /\ \A k \in 2..5 : s[i + k] \in Digits \cup HexLetters
             THEN ParseStringBody(s, i + 6,
                     Append(acc, CharOfCode(ParseInt(Slice(s, i + 2, i + 5), 16))))
             ELSE ParseFail)
    ELSE ParseStringBody(s, i + 1, Append(acc, s[i]))

\* a number: -?(0|[1-9]\d*)(\.\d+)?([eE][+-]?\d+)?
ParseNumber(s, i) ==
    With(IF CharAt(s, i) = "-" THEN i + 1 ELSE i, LAMBDA a :
    With(IF CharAt(s, a) = "0" THEN a + 1 ELSE SkipChars(s, Digits, a), LAMBDA b :
    With(IF CharAt(s, b) = "." THEN SkipChars(s, Digits, b + 1) ELSE b, LAMBDA c :
    With(IF CharAt(s, c) \in {"e", "E"}
              THEN (IF CharAt(s, c + 1) \in {"+", "-"} THEN c + 2 ELSE c + 1)
              ELSE c, LAMBDA e0 :
    With(IF e0 = c THEN c ELSE SkipChars(s, Digits, e0), LAMBDA d :
        IF b = a \/ (CharAt(s, b) = "." /\ c = b + 1) \/ (e0 # c /\ d = e0)
        THEN ParseFail
        ELSE Parsed(JNumber(Slice(s, i, d - 1)), d))))))

\* obj[key] = value: a repeated key keeps its place and takes the new value
PutMember(members, key, value) ==
    IF \E k \in 1..Len(members) : members[k].key = key
    THEN [k \in 1..Len(members) |->
            IF members[k].key = key THEN [key |-> key, value |-> value]
            ELSE members[k]]
    ELSE Append(members, [key |-> key, value |-> value])

RECURSIVE ParseValue(_, _)
RECURSIVE ParseMembers(_, _, _)
RECURSIVE ParseElements(_, _, _)

\* one JSON value starting at position i (leading whitespace skipped)
ParseValue(s, i0) ==
    With(SkipChars(s, JsonWs, i0), LAMBDA i :
    With(CharAt(s, i), LAMBDA c :
        IF c = "{"
        THEN With(SkipChars(s, JsonWs, i + 1), LAMBDA j :
                 IF CharAt(s, j) = "}" THEN Parsed(JObject(<< >>), j + 1)
                 ELSE ParseMembers(s, j, << >>))
        ELSE IF c = "["
        THEN With(SkipChars(s, JsonWs, i + 1), LAMBDA j :
                 IF CharAt(s, j) = "]" THEN Parsed(JArray(<< >>), j + 1)
                 ELSE ParseElements(s, j, << >>))
        ELSE IF c = "\"" THEN ParseStringBody(s, i + 1, << >>)
        ELSE IF c = "-" \/ c \in Digits THEN ParseNumber(s, i)
        ELSE IF StartsWith(s, i, Str.true) THEN Parsed(JBool(TRUE), i + 4)
        ELSE IF StartsWith(s, i, Str.false) THEN Parsed(JBool(FALSE), i + 5)
        ELSE IF StartsWith(s, i, Str.null) THEN Parsed(JNull, i + 4)
        ELSE ParseFail))

\* "key" : value ( , "key" : value )* }
ParseMembers(s, i0, acc) ==
    With(SkipChars(s, JsonWs, i0), LAMBDA i :
        IF CharAt(s, i) # "\"" THEN ParseFail
        ELSE With(ParseStringBody(s, i + 1, << >>), LAMBDA k :
                 IF ~k.ok THEN ParseFail
                 ELSE With(SkipChars(s, JsonWs, k.next), LAMBDA c :
                          IF CharAt(s, c) # ":" THEN ParseFail
                          ELSE With(ParseValue(s, c + 1), LAMBDA v :
                                   IF ~v.ok THEN ParseFail
                                   ELSE With(SkipChars(s, JsonWs, v.next), LAMBDA n :
                                        With(PutMember(acc, k.val.chars, v.val), LAMBDA new :
                                            IF CharAt(s, n) = "," THEN ParseMembers(s, n + 1, new)
                                            ELSE IF CharAt(s, n) = "}" THEN Parsed(JObject(new), n + 1)
                                            ELSE ParseFail))))))

\* value ( , value )* ]
ParseElements(s, i0, acc) ==
    With(ParseValue(s, i0), LAMBDA v :
        IF ~v.ok THEN ParseFail
        ELSE With(SkipChars(s, JsonWs, v.next), LAMBDA n :
                 IF CharAt(s, n) = "," THEN ParseElements(s, n + 1, Append(acc, v.val))
                 ELSE IF CharAt(s, n) = "]" THEN Parsed(JArray(Append(acc, v.val)), n + 1)
                 ELSE ParseFail))

\* JSON.parse(text): ok = FALSE is the SyntaxError it throws
JSONparse(s) ==
    With(ParseValue(s, 1), LAMBDA v :
        IF v.ok /\ SkipChars(s, JsonWs, v.next) = Len(s) + 1 THEN v ELSE ParseFail)

\* the characters JSON.stringify escapes in a string, for the model's alphabet
RECURSIVE EscapeString(_)
EscapeString(cs) ==
    IF cs = << >> THEN << >>
    ELSE (CASE Head(cs) = "\"" -> <<"\\", "\"">>
            [] Head(cs) = "\\" -> <<"\\", "\\">>
            [] Head(cs) = "\n" -> <<"\\", "n">>
            [] Head(cs) = "\t" -> <<"\\", "t">>
            [] Head(cs) = "\r" -> <<"\\", "r">>
            [] OTHER -> <<Head(cs)>>) \o EscapeString(Tail(cs))

QuoteString(cs) == <<"\"">> \o EscapeString(cs) \o <<"\"">>

\* a schema (Record<string, unknown>) is a sequence of fields, each a key
\* and a string value, in insertion order; NoSchema is undefined
NoSchema == <<[undefined |-> TRUE]>>

\* JSON.stringify(schema)
RECURSIVE StringifyFields(_, _, _)
StringifyFields(fields, sep, colon) ==
    IF fields = << >> THEN << >>
    ELSE QuoteString(Head(fields).key) \o colon \o QuoteString(Head(fields).value)
           \o (IF Len(fields) > 1 THEN <<",">> \o sep ELSE << >>)
           \o StringifyFields(Tail(fields), sep, colon)

JSONstringify(schema) == <<"{">> \o StringifyFields(schema, << >>, <<":">>) \o <<"}">>

\* JSON.stringify(schema, null, 2)
JSONstringifyIndented(schema) ==
    IF schema = << >> THEN <<"{", "}">>
    ELSE <<"{", "\n", " ", " ">>
           \o StringifyFields(schema, <<"\n", " ", " ">>, <<":", " ">>)
           \o <<"\n", "}">>

\* lines 264-326: the keywords of the seven rules
Keyword ==
    [ price |-> <<"p","r","i","c","e">>,
      sku |-> <<"s","k","u">>,
      availability |-> <<"a","v","a","i","l","a","b","i","l","i","t","y">>,
      author |-> <<"a","u","t","h","o","r">>,
      publishdate |-> <<"p","u","b","l","i","s","h","d","a","t","e">>,
      content |-> <<"c","o","n","t","e","n","t">>,
      article |-> <<"a","r","t","i","c","l","e">>,
      email |-> <<"e","m","a","i","l">>,
      phone |-> <<"p","h","o","n","e">>,
      linkedin |-> <<"l","i","n","k","e","d","i","n">>,
      startdate |-> <<"s","t","a","r","t","d","a","t","e">>,
      enddate |-> <<"e","n","d","d","a","t","e">>,
      venue |-> <<"v","e","n","u","e">>,
      registration |-> <<"r","e","g","i","s","t","r","a","t","i","o","n">>,
      salary |-> <<"s","a","l","a","r","y">>,
      requirements |-> <<"r","e","q","u","i","r","e","m","e","n","t","s">>,
      employmenttype |-> <<"e","m","p","l","o","y","m","e","n","t","t","y","p","e">>,
      ingredients |-> <<"i","n","g","r","e","d","i","e","n","t","s">>,
      cooktime |-> <<"c","o","o","k","t","i","m","e">>,
      servings |-> <<"s","e","r","v","i","n","g","s">>,
      rating |-> <<"r","a","t","i","n","g">>,
      review |-> <<"r","e","v","i","e","w">>,
      pros |-> <<"p","r","o","s">> ]

\* the ExtractionType union (lines 20-28)
ExtractionTypes ==
    {"auto", "article", "product", "contact", "event", "job", "recipe", "review"}

\* lines 264-326: the seven keyword rules, each on the lower-case schema text
IsProduct(str) ==
    Includes(str, Keyword.price) \/ Includes(str, Keyword.sku) \/ Includes(str, Keyword.availability)

IsArticle(str) ==
    /\ Includes(str, Keyword.author)
    /\ (Includes(str, Keyword.publishdate) \/ Includes(str, Keyword.content)
          \/ Includes(str, Keyword.article))

IsContact(str) ==
    Includes(str, Keyword.email) \/ Includes(str, Keyword.phone) \/ Includes(str, Keyword.linkedin)

IsEvent(str) ==
    \/ Includes(str, Keyword.startdate) \/ Includes(str, Keyword.enddate)
    \/ Includes(str, Keyword.venue) \/ Includes(str, Keyword.registration)

IsJob(str) ==
    \/ Includes(str, Keyword.salary) \/ Includes(str, Keyword.requirements)
    \/ Includes(str, Keyword.employmenttype)

IsRecipe(str) ==
    \/ Includes(str, Keyword.ingredients) \/ Includes(str, Keyword.cooktime)
    \/ Includes(str, Keyword.servings)

IsReview(str) ==
    /\ Includes(str, Keyword.rating)
    /\ (Includes(str, Keyword.review) \/ Includes(str, Keyword.pros))

\* const schemaStr = JSON.stringify(schema).toLowerCase()
SchemaStr(schema) == With(JSONstringify(schema), ToLowerCase)

\* a variant of the chain that tests the review rule first
ClassifyStr_reviewFirst(str) ==
    IF IsReview(str) THEN "review"
    ELSE IF IsProduct(str) THEN "product"
    ELSE IF IsArticle(str) THEN "article"
    ELSE IF IsContact(str) THEN "contact"
    ELSE IF IsEvent(str) THEN "event"
    ELSE IF IsJob(str) THEN "job"
    ELSE IF IsRecipe(str) THEN "recipe"
    ELSE "auto"

\* the chain of if statements, in the order of the source
ClassifyStr(str) ==
    IF IsProduct(str) THEN "product"
    ELSE IF IsArticle(str) THEN "article"
    ELSE IF IsContact(str) THEN "contact"
    ELSE IF IsEvent(str) THEN "event"
    ELSE IF IsJob(str) THEN "job"
    ELSE IF IsRecipe(str) THEN "recipe"
    ELSE IF IsReview(str) THEN "review"
    ELSE "auto"

\* a variant of the classifier without the default for an unmatched schema
detectExtractionType_noDefault(schema) ==
    IF schema = NoSchema THEN "auto"
    ELSE With(With(SchemaStr(schema), ClassifyStr), LAMBDA ty :
            IF ty = "auto" THEN "none" ELSE ty)

detectExtractionType(schema) ==
    IF schema = NoSchema THEN "auto" ELSE With(SchemaStr(schema), ClassifyStr)

\* EXTRACTION_PROMPTS[type]: each template is an opaque text, told apart by
\* its type
EXTRACTION_PROMPTS == [ty \in ExtractionTypes |-> <<"PROMPT", ty>>]

\* the type name as text, for the template literal ${extractionType}
TypeName ==
    [ty \in ExtractionTypes |->
        CASE ty = "auto" -> <<"a","u","t","o">>
          [] ty = "article" -> Keyword.article
          [] ty = "product" -> <<"p","r","o","d","u","c","t">>
          [] ty = "contact" -> <<"c","o","n","t","a","c","t">>
          [] ty = "event" -> <<"e","v","e","n","t">>
          [] ty = "job" -> <<"j","o","b">>
          [] ty = "recipe" -> <<"r","e","c","i","p","e">>
          [] ty = "review" -> Keyword.review]

\* a variant of the user prompt that leaves the custom schema out
UserPrompt_noSchema(pageTitle, ty, schema, md) ==
    Str.pageTitle \o pageTitle \o <<"\n">>
      \o Str.detected \o TypeName[ty] \o <<"\n", "\n">>
      \o Str.contentHeader \o md

\* lines 351-358: the user prompt
UserPrompt(pageTitle, ty, schema, md) ==
    Str.pageTitle \o pageTitle \o <<"\n">>
      \o Str.detected \o TypeName[ty] \o <<"\n", "\n">>
      \o (IF schema # NoSchema
          THEN Str.customSchema \o JSONstringifyIndented(schema) \o <<"\n", "\n">>
          ELSE << >>)
      \o Str.contentHeader \o md

\* three backticks, "json", an optional newline  (g)  ->  ""
M_fenceJson(s, i) ==
    IF s[i] = BT /\ StartsWith(s, i, Str.fenceJson)
    THEN Match(IF CharAt(s, i + 7) = "\n" THEN i + 7 ELSE i + 6, << >>)
    ELSE NoMatch

\* three backticks, an optional newline  (g)  ->  ""
M_fenceOnly(s, i) ==
    IF s[i] = BT /\ StartsWith(s, i, Str.fenceOnly)
    THEN Match(IF CharAt(s, i + 3) = "\n" THEN i + 3 ELSE i + 2, << >>)
    ELSE NoMatch

\* lines 380-383: the fence markers are removed and the text trimmed
CleanedText(modelText) ==
    Trim(Replace(Replace(modelText, M_fenceJson), M_fenceOnly))

\* a variant of the fallback that keeps the cleaned text, not the original
RawFallback_cleaned(modelText) ==
    JObject(<< [key |-> Str.rawExtraction, value |-> JString(CleanedText(modelText))],
               [key |-> Str.parseError, value |-> JString(Str.failedToParse)] >>)

\* lines 386-389: the value kept when JSON.parse throws
RawFallback(modelText) ==
    JObject(<< [key |-> Str.rawExtraction, value |-> JString(modelText)],
               [key |-> Str.parseError, value |-> JString(Str.failedToParse)] >>)

\* lines 378-390: parsedData
ParsedData(modelText) ==
    With(JSONparse(CleanedText(modelText)), LAMBDA r :
        IF r.ok THEN r.val ELSE RawFallback(modelText))

(***************************************************************************)
(* src/unnamed/part_000: the POST /extract handler, with scrapeUrl         *)
(* (src/src/lib/scraper.ts) and extractWithGemini / extractWithGeminiRest  *)
(* (src/src/lib/llm.ts) as it calls them.                                  *)
(***************************************************************************)

\* response.ok: the status is in the range 200-299
ResponseOk(status) == status >= 200 /\ status <= 299

\* `${response.status} ${response.statusText}`
StatusLine(status) ==
    CASE status = 200 -> <<"2","0","0"," ","O","K">>
      [] status = 404 -> <<"4","0","4"," ","N","o","t"," ","F","o","u","n","d">>
      [] status = 500 -> <<"5","0","0"," ","I","n","t","e","r","n","a","l"," ","S","e","r","v","e","r"," ","E","r","r","o","r">>
      [] status = 503 -> <<"5","0","3"," ","S","e","r","v","i","c","e"," ","U","n","a","v","a","i","l","a","b","l","e">>

\* scraper.ts line 166: the message of the error thrown for a non-ok status
FetchFailedMessage(u, status) ==
    Str.failedToFetch \o u \o <<":", " ">> \o StatusLine(status)

\* a variant of the rethrow that passes the cause on without the prefix
GeminiErrorMessage_bare(cause) == cause

\* llm.ts line 403: the message of the error thrown when the model call fails
GeminiErrorMessage(cause) == Str.geminiPrefix \o cause

\* llm.ts line 453: `Gemini API error (${response.status}): ${errorText}`
GeminiRestErrorMessage(status, errorText) ==
    Str.geminiRestOpen \o NumToStr(status) \o <<")", ":", " ">> \o errorText

\* part_000 lines 166-179: the error code and status chosen from the message
ErrorCodeOf(message) ==
    IF Includes(message, Str.navTimeout) THEN "TIMEOUT_ERROR"
    ELSE IF Includes(message, Str.netErr) THEN "NETWORK_ERROR"
    ELSE IF Includes(message, Str.geminiError) THEN "LLM_ERROR"
    ELSE "INTERNAL_ERROR"

StatusCodeOf(code) ==
    CASE code = "TIMEOUT_ERROR" -> 504
      [] code = "NETWORK_ERROR" -> 502
      [] code = "LLM_ERROR" -> 502
      [] OTHER -> 500

\* part_000 lines 159-191: the response built by the catch block
CaughtResponse(message) ==
    [success |-> FALSE, status |-> StatusCodeOf(ErrorCodeOf(message)),
     code |-> ErrorCodeOf(message), message |-> message]

\* part_000 lines 94-106
ValidationResponse ==
    [success |-> FALSE, status |-> 400, code |-> "VALIDATION_ERROR",
     message |-> <<"I","n","v","a","l","i","d"," ","r","e","q","u","e","s","t"," ","b","o","d","y">>]

\* part_000 lines 111-120
ConfigurationResponse ==
    [success |-> FALSE, status |-> 500, code |-> "CONFIGURATION_ERROR",
     message |-> <<"G","E","M","I","N","I","_","A","P","I","_","K","E","Y"," ","i","s"," ","n","o","t"," ","c","o","n","f","i","g","u","r","e","d">>]

\* llm.ts lines 394-399: the ExtractionResult
ExtractionResult(modelText, tokens, ty) ==
    [data |-> ParsedData(modelText), model |-> Str.modelName,
     tokensUsed |-> tokens, extractionType |-> ty]

\* part_000 lines 146-158: the success envelope, sent with status 200
SuccessResponse(res, u, pageTitle) ==
    [success |-> TRUE, status |-> 200, data |-> res.data,
     metadata |-> [url |-> u, title |-> pageTitle, model |-> res.model,
                   tokensUsed |-> res.tokensUsed]]

(***************************************************************************)
(* Bounds and the inputs the model draws from.                             *)
(***************************************************************************)

\* the most fragments concatenated into one HTML input
MaxFrags == 3

\* the most fragments concatenated into one model reply
MaxParts == 3

\* the most fields of a request schema
MaxKeys == 3

\* the most calls of the classifier on one schema
MaxCalls == 2

\* requests in flight at the same time
MaxRequests == 2

\* all concatenations of 1..n members of frags
RECURSIVE Concats(_, _)
Concats(frags, n) ==
    IF n = 0 THEN {}
    ELSE frags \cup {a \o b : a \in frags, b \in Concats(frags, n - 1)}

\* the fragments documents are built from
Frags ==
    [
      \* markup, bare angle brackets and character references
      markup |->
      {<<"a">>,
      <<"<">>,
      <<">">>,
      <<"<","b",">">>,
      <<"&","l","t",";">>,
      <<"&","g","t",";">>,
      <<"<","b","l","o","c","k","q","u","o","t","e",">","q","<","/","b","l","o","c","k","q","u","o","t","e",">">>},
      \* text, blanks, line breaks and block elements
      spacing |->
      {<<"a">>,
      <<" ">>,
      <<"\n">>,
      <<"\t">>,
      <<"<","p",">","a","<","/","p",">">>,
      <<"<","b","r",">">>,
      <<"<","p",">"," ","<","/","p",">">>},
      \* ordered and unordered lists
      list |->
      {<<"<","o","l",">","<","l","i",">","A","<","/","l","i",">">>,
      <<"<","l","i",">","B","<","/","l","i",">">>,
      <<"<","/","o","l",">">>,
      <<"<","u","l",">">>,
      <<"<","/","u","l",">">>,
      <<"t">>},
      \* code blocks, a paragraph and a heading
      block |->
      {<<"t">>,
      <<"<","p","r","e",">","c","<","/","p","r","e",">">>,
      <<"<","p","r","e",">","<","c","o","d","e",">","c","<","/","c","o","d","e",">","<","/","p","r","e",">">>,
      <<"<","p",">","x","<","/","p",">">>,
      <<"<","h","2",">","T","<","/","h","2",">">>},
      \* the text s occurs only inside elements and comments that are removed
      \* with their content
      hidden |->
      {<<"v">>,
      <<"<","s","c","r","i","p","t",">","s","<","/","s","c","r","i","p","t",">">>,
      <<"<","s","t","y","l","e",">","s","<","/","s","t","y","l","e"," ",">">>,
      <<"<","n","o","s","c","r","i","p","t",">","s">>,
      <<"<","n","a","v",">","<","n","a","v",">","s","<","/","n","a","v",">","s","<","/","n","a","v",">">>,
      <<"<","!","-","-","s","-","-",">">>,
      <<"<","a","s","i","d","e",">","s","<","/","a","s","i","d","e",">">>} ]

\* the documents whose only s characters are hidden text
HiddenInputs == Concats(Frags.hidden, MaxFrags)

HtmlInputs ==
    {<< >>} \cup Concats(Frags.markup, MaxFrags) \cup Concats(Frags.spacing, MaxFrags)
        \cup Concats(Frags.list, MaxFrags) \cup Concats(Frags.block, MaxFrags)
        \cup HiddenInputs

\* the fields request schemas are made of
SchemaFields ==
    << [key |-> <<"p","r","i","c","e">>, value |-> <<"n","u","m","b","e","r">>],
       [key |-> <<"S","K","U">>, value |-> <<"s","t","r","i","n","g">>],
       [key |-> <<"a","u","t","h","o","r">>, value |-> <<"s","t","r","i","n","g">>],
       [key |-> <<"p","u","b","l","i","s","h","D","a","t","e">>, value |-> <<"s","t","r","i","n","g">>],
       [key |-> <<"e","m","a","i","l">>, value |-> <<"s","t","r","i","n","g">>],
       [key |-> <<"v","e","n","u","e">>, value |-> <<"s","t","r","i","n","g">>],
       [key |-> <<"s","a","l","a","r","y">>, value |-> <<"n","u","m","b","e","r">>],
       [key |-> <<"s","e","r","v","i","n","g","s">>, value |-> <<"n","u","m","b","e","r">>],
       [key |-> <<"r","a","t","i","n","g">>, value |-> <<"n","u","m","b","e","r">>],
       [key |-> <<"r","e","v","i","e","w","s">>, value |-> <<"a","r","r","a","y">>],
       [key |-> <<"p","r","o","s">>, value |-> <<"a","r","r","a","y">>],
       [key |-> <<"t","i","t","l","e">>, value |-> <<"s","t","r","i","n","g">>] >>

\* the schema with the fields of index set I, in the order of SchemaFields
SchemaOf(I) ==
    With(SelectSeq([k \in 1..Len(SchemaFields) |-> k], LAMBDA k : k \in I),
         LAMBDA ix : [j \in 1..Len(ix) |-> SchemaFields[ix[j]]])

Schemas ==
    {SchemaOf(I) : I \in {J \in SUBSET (1..Len(SchemaFields)) : Cardinality(J) <= MaxKeys}}

\* the schemas of the requests: absent, {}, {price, rating, reviews}, {title}
RequestSchemas == {NoSchema, SchemaOf({}), SchemaOf({1, 9, 10}), SchemaOf({12})}

\* request URLs; the zod url() check accepts each of them
Urls ==
    {<<"h","t","t","p",":","/","/","a",".","i","o","/","x">>,
    <<"h","t","t","p",":","/","/","a",".","i","o","/","n","e","t",":",":","E","R","R","_">>,
    <<"h","t","t","p",":","/","/","a",".","i","o","/","G","e","m","i","n","i"," ","A","P","I"," ","e","r","r","o","r">>}

\* the request body: not JSON, JSON that fails the schema, or valid
Bodies == {"malformed", "invalid", "valid"}

\* messages of the errors fetch() rejects with
NetworkErrors ==
    {<<"f","e","t","c","h"," ","f","a","i","l","e","d">>,
    <<"N","e","t","w","o","r","k"," ","c","o","n","n","e","c","t","i","o","n"," ","l","o","s","t",".">>}

\* response statuses of the fetched site
Statuses == {200, 404, 503}

\* documents served by the fetched site
Pages ==
    {<<"<","t","i","t","l","e",">","T","<","/","t","i","t","l","e",">","<","b","o","d","y",">","<","h","1",">","H","<","/","h","1",">","<","p",">","a","<","/","p",">","<","/","b","o","d","y",">">>,
    <<"<","p",">","b","<","/","p",">">>}

\* messages of the errors the model client rejects with
ModelErrors ==
    {<<"q","u","o","t","a"," ","e","x","c","e","e","d","e","d">>,
    <<"C","a","n","d","i","d","a","t","e"," ","w","a","s"," ","b","l","o","c","k","e","d">>}

\* error bodies and statuses of the REST endpoint
RestStatuses == {200, 500}

\* the pieces model replies are made of
ReplyFrags ==
    {<<BT,BT,BT,"j","s","o","n","\n">>,
    <<"\n",BT,BT,BT>>,
    <<"{","\"","a","\"",":","1","}">>,
    <<"4","2">>,
    <<"x">>,
    <<"[","1","]">>,
    <<" ">>,
    <<"{","\"","b","\"",":","\"",BT,BT,BT,"\"","}">>}

ModelTexts == {<< >>} \cup Concats(ReplyFrags, MaxParts)

\* usageMetadata?.totalTokenCount: absent or a count
NoTokens == {}

TokenCounts == {NoTokens, {341}}

\* options.extractionType of a direct call: absent or given
NoType == "undefined"

RequestedTypes == {NoType, "recipe"}

\* the schemas and model replies concurrent requests draw from: enough for
\* two requests to differ in type and in the shape of the extracted data
Sampled ==
    [schemas |-> {NoSchema, SchemaOf({1, 9, 10})},
     texts |-> {<<"{","\"","a","\"",":","1","}">>, <<"4","2">>, <<"x">>}]


(***************************************************************************)
(* The state.                                                              *)
(***************************************************************************)

VARIABLES
    entry,            \* "http": POST /extract; "sdk", "rest": a direct call of
                      \* extractWithGemini / extractWithGeminiRest;
                      \* "htmlToMarkdown", "detectExtractionType": a direct
                      \* call of that function
    pc,               \* where the request or call stands
    body,             \* the kind of the request body
    url,              \* request.url
    schema,           \* request.schema / options.schema
    apiKey,           \* whether c.env.GEMINI_API_KEY is set
    requestedType,    \* options.extractionType
    html,             \* the fetched document / the argument of htmlToMarkdown
    title,            \* scrapeResult.title / options.title
    markdown,         \* scrapeResult.markdown / options.markdown
    extractionType,   \* the type the prompt is built for
    payload,          \* the text sent to the model
    text,             \* the text the model returned
    result,           \* what the extract function returned or threw
    response,         \* the HTTP response of the handler
    trace,            \* the outbound calls and results so far, in order
    catalog           \* the module-level object EXTRACTION_PROMPTS

\* what no statement of the program assigns to
inputs == <<entry, body, url, schema, apiKey, requestedType, catalog>>

vars ==
    <<entry, pc, body, url, schema, apiKey, requestedType, html, title,
      markdown, extractionType, payload, text, result, response, trace,
      catalog>>

\* llm.ts lines 342 and 365: systemPrompt + "\n\n" + userPrompt, the system
\* prompt read from the catalog
ModelPayload(pageTitle, ty, customSchema, md) ==
    catalog[ty] \o <<"\n", "\n">> \o UserPrompt(pageTitle, ty, customSchema, md)

NoResult == [kind |-> "none"]

NoResponse == [success |-> FALSE, status |-> 0]

\* nothing fetched, built or answered yet
Idle ==
    /\ extractionType = "none"
    /\ payload = << >>
    /\ text = << >>
    /\ result = NoResult
    /\ response = NoResponse
    /\ trace = << >>
    /\ catalog = EXTRACTION_PROMPTS

\* a request arrives at POST /extract
InitHttp ==
    /\ entry = "http"
    /\ pc = "start"
    /\ body \in Bodies
    /\ url \in Urls
    /\ schema \in RequestSchemas
    /\ apiKey \in BOOLEAN
    /\ requestedType = NoType
    /\ title = << >>
    /\ markdown = << >>
    /\ html = << >>
    /\ Idle

\* extractWithGemini or extractWithGeminiRest is called with options
InitCall ==
    /\ entry \in {"sdk", "rest"}
    /\ pc = "call"
    /\ body = "none"
    /\ url = << >>
    /\ schema \in RequestSchemas
    /\ apiKey = TRUE
    /\ requestedType \in RequestedTypes
    /\ title = <<"T">>
    /\ markdown \in {htmlToMarkdown(page) : page \in Pages}
    /\ html = << >>
    /\ Idle

Init == InitHttp \/ InitCall

\* htmlToMarkdown is called with a document
InitNormalize ==
    /\ entry = "htmlToMarkdown"
    /\ pc = "html"
    /\ html \in HtmlInputs
    /\ body = "none"
    /\ url = << >>
    /\ schema = NoSchema
    /\ apiKey = FALSE
    /\ requestedType = NoType
    /\ title = << >>
    /\ markdown = << >>
    /\ Idle

\* detectExtractionType is called with a schema, or with none
InitClassify ==
    /\ entry = "detectExtractionType"
    /\ pc = "schema"
    /\ schema \in Schemas \cup {NoSchema}
    /\ body = "none"
    /\ url = << >>
    /\ apiKey = FALSE
    /\ requestedType = NoType
    /\ html = << >>
    /\ title = << >>
    /\ markdown = << >>
    /\ Idle

(***************************************************************************)
(* The actions.                                                            *)
(***************************************************************************)

\* the handler answers and the request is over
Respond(r) ==
    /\ response' = r
    /\ trace' = Append(trace, "respond")
    /\ pc' = "done"

\* a variant of the handler that starts the fetch before it looks at the
\* body and the API key
Receive_fetchFirst ==
    /\ entry = "http"
    /\ pc = "start"
    /\ pc' = "fetching"
    /\ trace' = Append(trace, "fetch")
    /\ UNCHANGED <<inputs, html, title, markdown, extractionType, payload, text,
                   result, response>>

\* part_000 lines 86-127: the body is read and validated, the API key is
\* checked, and scrapeUrl issues its fetch
Receive ==
    /\ entry = "http"
    /\ pc = "start"
    /\ IF body = "malformed" THEN Respond(CaughtResponse(Str.unexpectedToken))
       ELSE IF body = "invalid" THEN Respond(ValidationResponse)
       ELSE IF ~apiKey THEN Respond(ConfigurationResponse)
       ELSE /\ pc' = "fetching"
            /\ trace' = Append(trace, "fetch")
            /\ UNCHANGED response
    /\ UNCHANGED <<inputs, html, title, markdown, extractionType, payload, text,
                   result>>

\* a variant of the failure path that goes on to the model call
ScrapeFails_proceeds(message) ==
    /\ trace' = trace \o <<"fetchFailed", "generateContent">>
    /\ pc' = "generating"
    /\ UNCHANGED <<html, title, markdown, extractionType, payload, response>>

\* the error scrapeUrl rejects with reaches the catch block of the handler
ScrapeFails(message) ==
    /\ response' = CaughtResponse(message)
    /\ trace' = trace \o <<"fetchFailed", "respond">>
    /\ pc' = "done"
    /\ UNCHANGED <<html, title, markdown, extractionType, payload>>

\* a variant of the start of the extraction that never consults the
\* classifier
StartExtraction_neverDetects(pageTitle, md) ==
    \E ty \in {IF requestedType # NoType THEN requestedType ELSE "article"} :
        /\ extractionType' = ty
        /\ payload' = ModelPayload(pageTitle, ty, schema, md)
        /\ trace' = Append(trace, IF entry = "rest" THEN "post" ELSE "generateContent")
        /\ pc' = IF entry = "rest" THEN "posting" ELSE "generating"

\* llm.ts lines 338-365: the type is chosen, the prompt is built and the
\* model is called
StartExtraction(pageTitle, md) ==
    \E ty \in {IF requestedType # NoType THEN requestedType
                ELSE detectExtractionType(schema)} :
        /\ extractionType' = ty
        /\ payload' = ModelPayload(pageTitle, ty, schema, md)
        /\ trace' = Append(trace, IF entry = "rest" THEN "post" ELSE "generateContent")
        /\ pc' = IF entry = "rest" THEN "posting" ELSE "generating"

\* scraper.ts lines 169-182 and part_000 lines 136-140: the page is
\* converted and extractWithGemini is called with it
ScrapeSucceeds(page) ==
    /\ html' = page
    /\ \E pageTitle \in {extractTitle(page)}, md \in {htmlToMarkdown(extractBody(page))} :
        /\ title' = pageTitle
        /\ markdown' = md
        /\ StartExtraction(pageTitle, md)
        /\ UNCHANGED response

\* scraper.ts lines 151-167: the fetch of the page settles
FetchSettles ==
    /\ entry = "http"
    /\ pc = "fetching"
    /\ \/ \E message \in NetworkErrors : ScrapeFails(message)
       \/ \E status \in Statuses :
            IF ResponseOk(status)
            THEN \E page \in Pages : ScrapeSucceeds(page)
            ELSE ScrapeFails(FetchFailedMessage(url, status))
    /\ UNCHANGED <<inputs, text, result>>

\* a direct call of extractWithGemini or extractWithGeminiRest starts
Call ==
    /\ entry \in {"sdk", "rest"}
    /\ pc = "call"
    /\ StartExtraction(title, markdown)
    /\ UNCHANGED <<inputs, html, title, markdown, text, result, response>>

\* a variant of the failure path that calls the model a second time
ExtractThrows_retries(message) ==
    /\ result' = [kind |-> "thrown", message |-> message]
    /\ trace' = trace \o <<"modelFailed", "generateContent">>
    /\ pc' = pc
    /\ UNCHANGED <<response, text>>

\* the extract function throws: to the handler's catch block, or to the
\* direct caller
ExtractThrows(message) ==
    /\ result' = [kind |-> "thrown", message |-> message]
    /\ IF entry = "http"
       THEN /\ response' = CaughtResponse(message)
            /\ trace' = trace \o <<"modelFailed", "respond">>
            /\ pc' = "done"
       ELSE /\ trace' = Append(trace, "modelFailed")
            /\ pc' = "thrown"
            /\ UNCHANGED response
    /\ UNCHANGED text

\* llm.ts lines 375-399 and part_000 lines 146-158: the reply is parsed, the
\* result returned and, in a request, the success envelope sent
ExtractReturns(modelText, tokens) ==
    /\ text' = modelText
    /\ \E res \in {ExtractionResult(modelText, tokens, extractionType)} :
        /\ result' = [kind |-> "returned"] @@ res
        /\ IF entry = "http"
           THEN /\ response' = SuccessResponse(res, url, title)
                /\ trace' = trace \o <<"modelReplied", "respond">>
                /\ pc' = "done"
           ELSE /\ trace' = Append(trace, "modelReplied")
                /\ pc' = "returned"
                /\ UNCHANGED response

\* llm.ts lines 360-404: generateContent settles
ModelSettles ==
    /\ pc = "generating"
    /\ \/ \E cause \in ModelErrors : ExtractThrows(GeminiErrorMessage(cause))
       \/ \E modelText \in ModelTexts, tokens \in TokenCounts :
            ExtractReturns(modelText, tokens)
    /\ UNCHANGED <<inputs, html, title, markdown, extractionType, payload>>

\* llm.ts lines 443-491: the POST to the REST endpoint settles; a reply
\* without candidates gives the text ""
RestSettles ==
    /\ pc = "posting"
    /\ \/ \E cause \in NetworkErrors : ExtractThrows(cause)
       \/ \E status \in RestStatuses :
            IF ResponseOk(status)
            THEN \E modelText \in ModelTexts, tokens \in TokenCounts :
                    ExtractReturns(modelText, tokens)
            ELSE ExtractThrows(GeminiRestErrorMessage(status, Str.quota))
    /\ UNCHANGED <<inputs, html, title, markdown, extractionType, payload>>

Next == Receive \/ FetchSettles \/ Call \/ ModelSettles \/ RestSettles

Spec == Init /\ [][Next]_vars

\* the handler and the extract functions run on once a promise they await
\* has settled, and every fetch and model call settles
SpecFair == Spec /\ WF_vars(Next)

\* scraper.ts lines 20-123: one call of htmlToMarkdown
Normalize ==
    /\ entry = "htmlToMarkdown"
    /\ pc = "html"
    /\ markdown' = htmlToMarkdown(html)
    /\ pc' = "markdown"
    /\ UNCHANGED <<inputs, html, title, extractionType, payload, text, result,
                   response, trace>>

SpecNormalize == InitNormalize /\ [][Normalize]_vars

\* llm.ts lines 259-329: one call of detectExtractionType; trace keeps what
\* each call returned
Detect ==
    /\ entry = "detectExtractionType"
    /\ Len(trace) < MaxCalls
    /\ \E ty \in {detectExtractionType(schema)} :
          /\ extractionType' = ty
          /\ trace' = Append(trace, ty)
    /\ pc' = "detected"
    /\ UNCHANGED <<inputs, html, title, markdown, payload, text, result, response>>

SpecClassify == InitClassify /\ [][Detect]_vars

\* a call of the classifier that has started runs to its end
SpecClassifyFair == SpecClassify /\ WF_vars(Detect)

(***************************************************************************)
(* Concurrent requests.  The worker runs one handler invocation per        *)
(* request; each holds its own locals and is suspended only at its awaits  *)
(* (the page fetch and the model call).  Here the request-scoped           *)
(* variables are functions over the requests in flight, apiKey and         *)
(* catalog are process-wide, and trace keeps the order in which the        *)
(* awaited calls settled, each entry an outcome with its request.           *)
(***************************************************************************)

Requests == 1 .. MaxRequests

InitConcurrent ==
    /\ entry = "concurrent"
    /\ pc = [r \in Requests |-> "start"]
    /\ body \in [Requests -> Bodies]
    /\ url \in [Requests -> Urls]
    /\ schema \in [Requests -> Sampled.schemas]
    /\ apiKey \in BOOLEAN
    /\ requestedType = NoType
    /\ html = [r \in Requests |-> << >>]
    /\ title = [r \in Requests |-> << >>]
    /\ markdown = [r \in Requests |-> << >>]
    /\ extractionType = [r \in Requests |-> "none"]
    /\ payload = [r \in Requests |-> << >>]
    /\ text = [r \in Requests |-> << >>]
    /\ result = [r \in Requests |-> NoResult]
    /\ response = [r \in Requests |-> NoResponse]
    /\ trace = << >>
    /\ catalog = EXTRACTION_PROMPTS

\* part_000 lines 86-127 for request r: runs without an await between the
\* checks, up to the fetch scrapeUrl issues
ReceiveOf(r) ==
    /\ entry = "concurrent"
    /\ pc[r] = "start"
    /\ \E early \in {IF body[r] = "malformed" THEN CaughtResponse(Str.unexpectedToken)
                     ELSE IF body[r] = "invalid" THEN ValidationResponse
                     ELSE IF ~apiKey THEN ConfigurationResponse
                     ELSE NoResponse} :
        /\ response' = [response EXCEPT ![r] = early]
        /\ pc' = [pc EXCEPT ![r] = IF early.status = 0 THEN "fetching" ELSE "done"]
    /\ UNCHANGED <<inputs, html, title, markdown, extractionType, payload, text,
                   result, trace>>

\* a variant in which the scrape result is kept in one module-level variable
\* that every request reads
FetchSettlesOf_shared(r) ==
    /\ entry = "concurrent"
    /\ pc[r] = "fetching"
    /\ \E o \in {[kind |-> "rejected", message |-> m, status |-> 0, page |-> << >>] :
                    m \in NetworkErrors}
                \cup {[kind |-> "settled", message |-> << >>, status |-> s, page |-> p] :
                        s \in Statuses, p \in Pages} :
        /\ trace' = Append(trace, [request |-> r] @@ o)
        /\ IF o.kind = "settled" /\ ResponseOk(o.status)
           THEN \E pageTitle \in {extractTitle(o.page)},
                   md \in {htmlToMarkdown(extractBody(o.page))},
                   ty \in {detectExtractionType(schema[r])} :
                    /\ html' = [html EXCEPT ![r] = o.page]
                    /\ title' = [q \in Requests |-> pageTitle]
                    /\ markdown' = [q \in Requests |-> md]
                    /\ extractionType' = [extractionType EXCEPT ![r] = ty]
                    /\ payload' = [payload EXCEPT ![r] = ModelPayload(pageTitle, ty, schema[r], md)]
                    /\ pc' = [pc EXCEPT ![r] = "generating"]
                    /\ UNCHANGED response
           ELSE /\ response' = [response EXCEPT ![r] =
                                  CaughtResponse(IF o.kind = "rejected" THEN o.message
                                                 ELSE FetchFailedMessage(url[r], o.status))]
                /\ pc' = [pc EXCEPT ![r] = "done"]
                /\ UNCHANGED <<html, title, markdown, extractionType, payload>>
    /\ UNCHANGED <<inputs, text, result>>

\* scraper.ts lines 151-182, part_000 lines 130-140 and llm.ts lines 338-365
\* for request r: its fetch settles; on success the page is converted, the
\* prompt built and the model called, otherwise the error reaches the catch
\* block.  The body of a failed response is not read.
FetchSettlesOf(r) ==
    /\ entry = "concurrent"
    /\ pc[r] = "fetching"
    /\ \E o \in {[kind |-> "rejected", message |-> m, status |-> 0, page |-> << >>] :
                    m \in NetworkErrors}
                \cup {[kind |-> "settled", message |-> << >>, status |-> s, page |-> p] :
                        s \in Statuses, p \in Pages} :
        /\ trace' = Append(trace, [request |-> r] @@ o)
        /\ IF o.kind = "settled" /\ ResponseOk(o.status)
           THEN \E pageTitle \in {extractTitle(o.page)},
                   md \in {htmlToMarkdown(extractBody(o.page))},
                   ty \in {detectExtractionType(schema[r])} :
                    /\ html' = [html EXCEPT ![r] = o.page]
                    /\ title' = [title EXCEPT ![r] = pageTitle]
                    /\ markdown' = [markdown EXCEPT ![r] = md]
                    /\ extractionType' = [extractionType EXCEPT ![r] = ty]
                    /\ payload' = [payload EXCEPT ![r] = ModelPayload(pageTitle, ty, schema[r], md)]
                    /\ pc' = [pc EXCEPT ![r] = "generating"]
                    /\ UNCHANGED response
           ELSE /\ response' = [response EXCEPT ![r] =
                                  CaughtResponse(IF o.kind = "rejected" THEN o.message
                                                 ELSE FetchFailedMessage(url[r], o.status))]
                /\ pc' = [pc EXCEPT ![r] = "done"]
                /\ UNCHANGED <<html, title, markdown, extractionType, payload>>
    /\ UNCHANGED <<inputs, text, result>>

\* llm.ts lines 360-404 and part_000 lines 146-192 for request r: its
\* generateContent settles and the handler answers
ModelSettlesOf(r) ==
    /\ entry = "concurrent"
    /\ pc[r] = "generating"
    /\ \E o \in {[kind |-> "rejected", message |-> cause, text |-> << >>, tokens |-> NoTokens] :
                    cause \in ModelErrors}
                \cup {[kind |-> "settled", message |-> << >>, text |-> t, tokens |-> k] :
                        t \in Sampled.texts, k \in TokenCounts} :
        /\ trace' = Append(trace, [request |-> r] @@ o)
        /\ IF o.kind = "rejected"
           THEN /\ result' = [result EXCEPT ![r] =
                                [kind |-> "thrown", message |-> GeminiErrorMessage(o.message)]]
                /\ response' = [response EXCEPT ![r] =
                                  CaughtResponse(GeminiErrorMessage(o.message))]
                /\ UNCHANGED text
           ELSE \E res \in {ExtractionResult(o.text, o.tokens, extractionType[r])} :
                    /\ text' = [text EXCEPT ![r] = o.text]
                    /\ result' = [result EXCEPT ![r] = [kind |-> "returned"] @@ res]
                    /\ response' = [response EXCEPT ![r] = SuccessResponse(res, url[r], title[r])]
    /\ pc' = [pc EXCEPT ![r] = "done"]
    /\ UNCHANGED <<inputs, html, title, markdown, extractionType, payload>>

\* the event loop runs whichever request has a settled promise
NextConcurrent ==
    \E r \in Requests : ReceiveOf(r) \/ FetchSettlesOf(r) \/ ModelSettlesOf(r)

SpecConcurrent == InitConcurrent /\ [][NextConcurrent]_vars

\* part_000 lines 86-192 as one function: the response of a request that
\* runs alone, given its body, the key, its url and schema and the outcomes
\* of its fetch and its model call
AloneResponse(b, key, u, customSchema, outcomes) ==
    IF b = "malformed" THEN CaughtResponse(Str.unexpectedToken)
    ELSE IF b = "invalid" THEN ValidationResponse
    ELSE IF ~key THEN ConfigurationResponse
    ELSE IF outcomes[1].kind = "rejected" THEN CaughtResponse(outcomes[1].message)
    ELSE IF ~ResponseOk(outcomes[1].status)
    THEN CaughtResponse(FetchFailedMessage(u, outcomes[1].status))
    ELSE IF outcomes[2].kind = "rejected"
    THEN CaughtResponse(GeminiErrorMessage(outcomes[2].message))
    ELSE SuccessResponse(
            ExtractionResult(outcomes[2].text, outcomes[2].tokens,
                             detectExtractionType(customSchema)),
            u, extractTitle(outcomes[1].page))

(***************************************************************************)
(* Properties of one POST /extract request and of one call of              *)
(* extractWithGemini / extractWithGeminiRest (specification Spec).         *)
(***************************************************************************)

\* C1: in a request whose page fetch failed (a non-ok status or a network
\* error) the model is never called, neither through the SDK nor through the
\* REST endpoint; and a request calls the model only after its fetch was
\* issued and did not fail.
C1_NoModelCallAfterFetchFailure ==
    entry = "http" =>
        \A k \in 1..Len(trace) :
            trace[k] \in {"generateContent", "post"} =>
                /\ \E j \in 1..(k - 1) : trace[j] = "fetch"
                /\ \A j \in 1..Len(trace) : trace[j] # "fetchFailed"

\* a request that ended after its fetch failed
C1_Witness ==
    /\ entry = "http"
    /\ pc = "done"
    /\ \E k \in 1..Len(trace) : trace[k] = "fetchFailed"
    /\ ~response.success

\* C2 (as claimed): a failed fetch is answered with a failure whose label is
\* neither the label of model failures (LLM_ERROR) nor the label of other
\* internal failures (INTERNAL_ERROR), and whose message is the message of
\* the fetch error.
C2_FetchFailureHasOwnLabel ==
    (entry = "http" /\ \E k \in 1..Len(trace) : trace[k] = "fetchFailed") =>
        /\ ~response.success
        /\ response.code \notin {"LLM_ERROR", "INTERNAL_ERROR"}
        /\ response.message \in
              NetworkErrors \cup {FetchFailedMessage(url, s) : s \in Statuses}

\* C3: when the text the model returned does not parse as JSON after the
\* code fences are removed, the extract function returns (it does not
\* throw), data is an object with exactly the members rawExtraction, holding
\* the text exactly as the model returned it, and parseError, holding a
\* string; in a request the answer is the success envelope carrying it.
C3_ParseFailureIsRecovered ==
    ((\E k \in 1..Len(trace) : trace[k] = "modelReplied")
        /\ ~JSONparse(CleanedText(text)).ok) =>
        /\ result.kind = "returned"
        /\ result.data.t = "object"
        /\ Len(result.data.members) = 2
        /\ result.data.members[1] = [key |-> Str.rawExtraction, value |-> JString(text)]
        /\ result.data.members[2].key = Str.parseError
        /\ result.data.members[2].value.t = "string"
        /\ entry = "http" =>
              /\ pc = "done"
              /\ response.success
              /\ response.status = 200
              /\ response.data = result.data

\* a request answered with the fallback for a fenced reply that is not
\* JSON: the cleaned text differs from the text kept in rawExtraction
C3_Witness ==
    /\ entry = "http"
    /\ pc = "done"
    /\ response.success
    /\ \E k \in 1..Len(trace) : trace[k] = "modelReplied"
    /\ ~JSONparse(CleanedText(text)).ok
    /\ CleanedText(text) # text
    /\ response.data.members[1].value = JString(text)

\* C4 (as claimed): the data of a returned ExtractionResult is a JSON
\* object, whatever text the model returned.
C4_DataIsAnObject ==
    result.kind = "returned" => result.data.t = "object"

(***************************************************************************)
(* Properties of detectExtractionType (specification SpecClassify).        *)
(***************************************************************************)

\* C5: the seven keyword rules are tried in the order product, article,
\* contact, event, job, recipe, review and the first rule that matches the
\* lower-case schema text decides: whenever a rule matches and no rule
\* before it does, the result is that rule's profile, whatever later rules
\* match; a schema text with price, rating and review is a product.
C5_FirstMatchingRuleWins ==
    (pc = "detected" /\ schema # NoSchema) =>
        \E str \in {SchemaStr(schema)} :
            \E m \in {<<IsProduct(str), IsArticle(str), IsContact(str),
                        IsEvent(str), IsJob(str), IsRecipe(str), IsReview(str)>>} :
                /\ \A i \in 1..7 :
                      (m[i] /\ \A j \in 1..(i - 1) : ~m[j]) =>
                          extractionType =
                              <<"product", "article", "contact", "event", "job",
                                "recipe", "review">>[i]
                /\ (Includes(str, Keyword.price) /\ Includes(str, Keyword.rating)
                        /\ Includes(str, Keyword.review)) => extractionType = "product"

\* the schema {price, rating, reviews}, which the product rule and the
\* review rule both match, was classified
C5_Witness ==
    /\ pc = "detected"
    /\ schema = SchemaOf({1, 9, 10})
    /\ IsProduct(SchemaStr(schema))
    /\ IsReview(SchemaStr(schema))
    /\ extractionType = "product"

C7_NoAngleBrackets ==
    pc = "markdown" => \A k \in 1..Len(markdown) : markdown[k] \notin {"<", ">"}

\* C7 (amended): the text left by the tag pass holds no tag, that is no <
\* followed by one or more characters other than > and then a >; and for a
\* document without & the returned text holds no tag either. The returned
\* text can hold < and > all the same: a bare <, > or <> of the document,
\* the > that starts a blockquote line, and what &lt; and &gt; decode to.
C7_NoTagAfterTagPass ==
    pc = "markdown" =>
        /\ \E t \in {MarkupRemoved(html)} :
              \A i \in 1..Len(t) : M_anyTag(t, i).end = 0
        /\ (\A k \in 1..Len(html) : html[k] # "&") =>
              \A i \in 1..Len(markdown) : M_anyTag(markdown, i).end = 0

\* a document with a tag and no &, whose returned text still holds a <
C7_Witness ==
    /\ pc = "markdown"
    /\ \E i \in 1..Len(html) : M_anyTag(html, i).end # 0
    /\ \A k \in 1..Len(html) : html[k] # "&"
    /\ \E k \in 1..Len(markdown) : markdown[k] = "<"

\* C8 (as claimed): the returned text has no three consecutive newlines and
\* no line that ends in a space or a tab.
C8_NoBlankRuns ==
    pc = "markdown" =>
        /\ \A k \in 1..(Len(markdown) - 2) :
              ~(markdown[k] = "\n" /\ markdown[k + 1] = "\n" /\ markdown[k + 2] = "\n")
        /\ \A k \in 1..Len(markdown) :
              markdown[k] \in BlankChars =>
                  (k < Len(markdown) /\ markdown[k + 1] # "\n")

\* C9 (as claimed): the two items of <ol><li>A</li><li>B</li></ol> come
\* out as the lines 1. A and 2. B.
C9_OrderedListLines ==
    (pc = "markdown"
        /\ html = <<"<","o","l",">","<","l","i",">","A","<","/","l","i",">",
                    "<","l","i",">","B","<","/","l","i",">","<","/","o","l",">">>) =>
        markdown = <<"1", ".", " ", "A", "\n", "2", ".", " ", "B">>

\* C10 (as claimed): text inside script, style, noscript, nav, aside and
\* comments does not reach the returned text, also when the element is
\* nested, unclosed or closed with a blank before the >.
C10_HiddenTextRemoved ==
    (pc = "markdown" /\ html \in HiddenInputs) =>
        \A k \in 1..Len(markdown) : markdown[k] # "s"

(***************************************************************************)
(* Further properties of one POST /extract request (specification Spec).   *)
(***************************************************************************)

\* C11: a request issues at most one fetch of the page and at most one call
\* of the model, the fetch before the call; a failed fetch and a failed
\* model call are each followed by the response and by nothing else, and
\* that response is a failure carrying the message of the error.
C11_NoRetries ==
    entry = "http" =>
        /\ Cardinality({k \in 1..Len(trace) : trace[k] = "fetch"}) <= 1
        /\ Cardinality({k \in 1..Len(trace) :
                           trace[k] \in {"generateContent", "post"}}) <= 1
        /\ \A k \in 1..Len(trace) :
              trace[k] \in {"generateContent", "post"} =>
                  \E j \in 1..(k - 1) : trace[j] = "fetch"
        /\ \A k \in 1..Len(trace) :
              trace[k] \in {"fetchFailed", "modelFailed"} =>
                  /\ Len(trace) = k + 1
                  /\ trace[k + 1] = "respond"
                  /\ pc = "done"
                  /\ ~response.success
                  /\ trace[k] = "modelFailed" => response.message = result.message

\* a request answered after its model call failed
C11_Witness ==
    /\ entry = "http"
    /\ pc = "done"
    /\ trace = <<"fetch", "generateContent", "modelFailed", "respond">>
    /\ ~response.success

\* C13: the one text sent to the model is, in this order: the template of
\* the chosen type, the page title, the name of the chosen type, the
\* caller's schema as JSON.stringify(schema, null, 2) under the line that
\* tells the model to use it instead of the default (there exactly when a
\* schema was given), and the whole normalized text; the type returned in
\* the result is the type whose template was sent.
C13_PayloadParts ==
    (pc \in {"generating", "posting", "done", "returned", "thrown"}
        /\ \E k \in 1..Len(trace) : trace[k] \in {"generateContent", "post"}) =>
        /\ payload =
              EXTRACTION_PROMPTS[extractionType] \o <<"\n", "\n">>
                \o Str.pageTitle \o title \o <<"\n">>
                \o Str.detected \o TypeName[extractionType] \o <<"\n", "\n">>
                \o (IF schema = NoSchema THEN << >>
                    ELSE Str.customSchema \o JSONstringifyIndented(schema)
                           \o <<"\n", "\n">>)
                \o Str.contentHeader \o markdown
        /\ Includes(payload, Str.customSchema) <=> schema # NoSchema
        /\ result.kind = "returned" =>
              /\ result.extractionType = extractionType
              /\ StartsWith(payload, 1, EXTRACTION_PROMPTS[result.extractionType])

\* a request with the schema {price, rating, reviews} was answered from a
\* page with text
C13_Witness ==
    /\ entry = "http"
    /\ pc = "done"
    /\ response.success
    /\ schema = SchemaOf({1, 9, 10})
    /\ markdown # << >>
    /\ Includes(payload, JSONstringifyIndented(schema))
    /\ result.extractionType = "product"

\* C14: a request without a schema, or with a schema whose lower-case text
\* has none of the keywords, has no type of its own (the handler passes
\* none): the type used is auto, the text sent to the model starts with the
\* auto template, and the result names auto.
C14_DefaultsToAuto ==
    (entry = "http"
        /\ (\E k \in 1..Len(trace) : trace[k] = "generateContent")
        /\ (schema = NoSchema
              \/ \E str \in {SchemaStr(schema)} :
                    ~(IsProduct(str) \/ IsArticle(str) \/ IsContact(str)
                        \/ IsEvent(str) \/ IsJob(str) \/ IsRecipe(str)
                        \/ IsReview(str)))) =>
        /\ requestedType = NoType
        /\ extractionType = "auto"
        /\ StartsWith(payload, 1, <<"PROMPT", "auto", "\n", "\n">>)
        /\ result.kind = "returned" => result.extractionType = "auto"

\* a request with the schema {title}, which no rule matches, was answered
C14_Witness ==
    /\ entry = "http"
    /\ pc = "done"
    /\ response.success
    /\ schema = SchemaOf({12})
    /\ result.extractionType = "auto"

C16_FencedObjectIsParsed ==
    (result.kind = "returned"
        /\ StartsWith(text, 1, Str.fenceJson \o <<"\n">>)
        /\ Len(text) >= Len(Str.fenceJson) + 5
        /\ StartsWith(text, Len(text) - 3, <<"\n">> \o Str.fenceOnly)) =>
        \E r \in {JSONparse(Slice(text, Len(Str.fenceJson) + 2, Len(text) - 4))} :
            (r.ok /\ r.val.t = "object") => result.data = r.val

(***************************************************************************)
(* Further properties of htmlToMarkdown (specification SpecNormalize).     *)
(***************************************************************************)

\* C17 (as claimed): a pre block, with or without a code element inside,
\* comes out as a fence line, the text of the block and a fence line,
\* whatever stands before and after it in the document.
C17_PreIsFenced ==
    (pc = "markdown"
        /\ (Includes(html, <<"<","p","r","e",">","c","<","/","p","r","e",">">>)
              \/ Includes(html, <<"<","p","r","e",">","<","c","o","d","e",">","c",
                                  "<","/","c","o","d","e",">","<","/","p","r","e",">">>))) =>
        Includes(markdown, <<BT, BT, BT, "\n", "c", "\n", BT, BT, BT>>)

\* C18 (as claimed): a heading between two texts comes out as its own line
\* of # characters, a space and the heading text, with an empty line before
\* it and an empty line after it.
C18_HeadingBetweenBlankLines ==
    (pc = "markdown"
        /\ html = <<"t", "<","h","2",">","T","<","/","h","2",">", "t">>) =>
        markdown = <<"t", "\n", "\n", "#", "#", " ", "T", "\n", "\n", "t">>

(***************************************************************************)
(* The labels and the order of the steps of a request (specification       *)
(* Spec).                                                                  *)
(***************************************************************************)

\* C19 (as claimed): a failure is labelled LLM_ERROR only when the model was
\* called and failed, and the label of a failed fetch does not depend on the
\* URL the caller sent: it is the label the same failure has with any other
\* URL, so TIMEOUT_ERROR and NETWORK_ERROR never come from the caller's text.
C19_LabelMatchesStage ==
    (entry = "http" /\ pc = "done" /\ ~response.success) =>
        /\ response.code = "LLM_ERROR" =>
              \E k \in 1..Len(trace) : trace[k] = "modelFailed"
        /\ (\E k \in 1..Len(trace) : trace[k] = "fetchFailed") =>
              \A s \in Statuses :
                  response.message = FetchFailedMessage(url, s) =>
                      response.code = ErrorCodeOf(FetchFailedMessage(<< >>, s))

C12_RequestsAreIsolated ==
    /\ catalog = EXTRACTION_PROMPTS
    /\ \A r \in Requests :
          pc[r] = "done" =>
              response[r] = AloneResponse(body[r], apiKey, url[r], schema[r],
                                SelectSeq(trace, LAMBDA e : e.request = r))

\* two requests for different urls, with different schemas, were both
\* answered with success; the second one's fetch and model call settled
\* while the first was waiting for its model, and the pages fetched had
\* different titles
C12_Witness ==
    /\ entry = "concurrent"
    /\ Len(trace) = 4
    /\ trace[1].request = 1 /\ trace[2].request = 2
    /\ trace[3].request = 2 /\ trace[4].request = 1
    /\ pc[1] = "done" /\ response[1].success
    /\ pc[2] = "done" /\ response[2].success
    /\ url[1] # url[2]
    /\ schema[1] # schema[2]
    /\ title[1] # title[2]
    /\ extractionType[1] # extractionType[2]
    /\ text[1] # text[2]

=============================================================================
